---- MODULE Spec2Model ----
(***************************************************************************)
(* The front-end command handlers of the arana MySQL proxy                 *)
(* (pkg/mysql/execute_handle.go): COM_INIT_DB, COM_QUERY, COM_FIELD_LIST,  *)
(* COM_STMT_PREPARE, COM_STMT_EXECUTE, COM_STMT_RESET and COM_SET_OPTION.  *)
(*                                                                         *)
(* Every handler run is recorded as a trace of events (the command read,   *)
(* recycleReadPacket, collaborator calls, packet writes, buffering on/off) *)
(* together with the value the handler returns.                            *)
(***************************************************************************)
EXTENDS Integers, Sequences, FiniteSets, TLC

VARIABLES Schema, Capabilities, StatusFlags, statementID, stmts, pc, pstmt, frame, last

vars == <<Schema, Capabilities, StatusFlags, statementID, stmts, pc, pstmt, frame, last>>

(***************************************************************************)
(* Bounds of the model.                                                    *)
(***************************************************************************)
\* statements prepared in one run of the model
MaxPrepares == 2
\* results the executor hands to the COM_QUERY callback in one command
MaxResults == 2
\* the write call of a handler run that may fail (0: none fails)
MaxWriteFail == 3
\* fields the executor returns for COM_FIELD_LIST
MaxFields == 1
\* the flush of a handler run that may fail (0: none fails)
MaxFlushFail == 1

(***************************************************************************)
(* Protocol constants (pkg/constants/mysql).                               *)
(***************************************************************************)
ERBadDb == 1049
ERBadNullError == 1048
ERUnknownComError == 1047
ERUnknownError == 1105
CRMalformedPacket == 2027
CRCommandsOutOfSync == 2014
ComSetOption == 27
ComStmtReset == 26
FieldTypeLongLong == 8
ServerStatusInTrans == 1
ServerStatusAutocommit == 2
ServerMoreResultsExists == 8
CapabilityClientProtocol41 == 512
CapabilityClientMultiStatements == 65536
Uint16Mod == 65536

\* A uint32 (the statement id, the counter l.statementID) is held as its two
\* 16-bit halves <<high, low>>, of value high * 65536 + low: 0 is <<0, 0>>
\* and 4294967295 is <<65535, 65535>>.
Uint32(n) == <<n \div Uint16Mod, n % Uint16Mod>>

MaxUint32 == <<Uint16Mod - 1, Uint16Mod - 1>>

\* a < b on uint32
Less32(a, b) == a[1] < b[1] \/ (a[1] = b[1] /\ a[2] < b[2])

Conns == {"c1", "c2"}

\* c.Tenant, set during authentication
Tenant == [c \in Conns |-> IF c = "c1" THEN "t1" ELSE "t2"]

\* security.DefaultTenantManager().GetClusters(tenant)
GetClusters(tenant) == IF tenant = "t1" THEN <<"app", "ops">> ELSE <<"app">>

\* schema names a client may send with COM_INIT_DB
DBNames == {"app", "ops", "secret"}

(***************************************************************************)
(* Bit operations on capability and status masks (b is a single bit).      *)
(***************************************************************************)
HasBit(x, b) == (x \div b) % 2 = 1

\* x | b
BitOr(x, b) == IF HasBit(x, b) THEN x ELSE x + b

\* x &^ b
BitAndNot(x, b) == IF HasBit(x, b) THEN x - b ELSE x

(***************************************************************************)
(* Errors and packets.                                                     *)
(***************************************************************************)
NewSQLError(code, msg) == [code |-> code, msg |-> msg]

\* an error returned by a collaborator (executor, parser, hint parser)
CollabError(who) == [code |-> ERUnknownError, msg |-> who]

ErrPacket(err) == [t |-> "ERR", code |-> err.code, msg |-> err.msg]

OKPacket(affected, insertId, status, warn) == [t |-> "OK", affected |-> affected, insertId |-> insertId, status |-> status, warn |-> warn]

EOFPacket(status, warn) == [t |-> "EOF", status |-> status, warn |-> warn]

(***************************************************************************)
(* A handler run: the trace so far, the writes and flushes attempted, and  *)
(* whether the writer is buffering.  wf (ff) is the write (flush) of this  *)
(* run that fails, 0 when none does.                                       *)
(***************************************************************************)
Begin(cmd, data, wf, ff) == [tr |-> <<[e |-> "cmd", cmd |-> cmd, data |-> data]>>, nw |-> 0, nf |-> 0, buf |-> FALSE, wf |-> wf, ff |-> ff]

Event(h, ev) == [h EXCEPT !.tr = Append(@, ev)]

recycleReadPacket(h) == Event(h, [e |-> "recycle"])

\* a call into a collaborator and whether it succeeded
Call(h, f, ok) == Event(h, [e |-> "call", f |-> f, ok |-> ok])

\* one packet (or packet burst) handed to the connection's writer
writePacket(h, p) == [h EXCEPT !.nw = @ + 1, !.tr = Append(@, [e |-> "write", p |-> p, ok |-> (h.nw + 1 # h.wf), buf |-> h.buf])]

\* has no write of the run failed
WritesOK(h) == \A i \in 1..Len(h.tr) : h.tr[i].e = "write" => h.tr[i].ok

\* did the last event, a write, fail
WriteFailed(h) == LET ev == h.tr[Len(h.tr)] IN ev.e = "write" /\ ~ev.ok

startWriterBuffering(h) == [h EXCEPT !.buf = TRUE, !.tr = Append(@, [e |-> "start", nested |-> h.buf])]

\* flushes when buffering is on; the flush fails when it is the ff-th one
endWriterBuffering(h) == IF ~h.buf THEN Event(h, [e |-> "end", flushed |-> FALSE, ok |-> TRUE]) ELSE [h EXCEPT !.buf = FALSE, !.nf = @ + 1, !.tr = Append(@, [e |-> "end", flushed |-> TRUE, ok |-> (h.nf + 1 # h.ff)])]

writeErrorPacketFromError(h, err) == writePacket(h, ErrPacket(err))

writeErrorPacket(h, code, msg) == writePacket(h, ErrPacket(NewSQLError(code, msg)))

writeOKPacket(h, affected, insertId, status, warn) == writePacket(h, OKPacket(affected, insertId, status, warn))

\* flags := c.StatusFlags; if more { flags |= ServerMoreResultsExists }
writeEndResult(h, status, more, warn) == writePacket(h, EOFPacket(IF more THEN BitOr(status, ServerMoreResultsExists) ELSE status, warn))

\* the writes that may fail in a run that, when none fails, ends as h does:
\* none (0), or one of the writes it attempts, up to the MaxWriteFail-th
WriteFailures(h) == {wf \in 0..MaxWriteFail : wf <= h.nw}

\* the run h when its wf-th write is the one that fails
FailWrite(h, wf) == [h EXCEPT !.wf = wf]

\* the next write of the run h may fail if it is one of the first MaxWriteFail
NextWriteFailures(h) == {0} \cup ({h.nw + 1} \cap (1..MaxWriteFail))

\* the write and flush failures of a run, <<wf, ff>>: at most one of the two
IOFailures == {io \in (0..MaxWriteFail) \X (0..MaxFlushFail) : io[1] > 0 => io[2] = 0}

\* the result of a handler run
Return(h, ret) == [tr |-> h.tr, ret |-> ret]

\* no handler run is on record
NoRun == [conn |-> "none", tr |-> <<>>, ret |-> "none"]

\* connection c is between commands, and the run on record has been taken up
Idle(c) == pc[c] = "idle" /\ last = NoRun

\* The command loop goes back to reading the next command: the context of
\* the command just handled, and with it the record of its run, is discarded.
NextCommand ==
  /\ last # NoRun
  /\ last' = NoRun
  /\ UNCHANGED <<Schema, Capabilities, StatusFlags, statementID, stmts, pc, pstmt, frame>>

(***************************************************************************)
(* handleInitDB                                                            *)
(***************************************************************************)
\* the comparison inverted: if db != it
allowOther(clusters, db) == \E i \in 1..Len(clusters) : clusters[i] # db

\* for _, it := range clusters { if db == it { allow = true; break } }
allow(clusters, db) == \E i \in 1..Len(clusters) : clusters[i] = db

\* c.Schema = db left out
InitDBSchemaKeep(c, db) == Schema[c]

\* the Schema of the connection when handleInitDB returns
InitDBSchema(c, db) == IF allow(GetClusters(Tenant[c]), db) THEN db ELSE Schema[c]

InitDBDenied(h, db) == LET h1 == writeErrorPacketFromError(h, NewSQLError(ERBadDb, "Unknown database '" \o db \o "'")) IN Return(h1, IF WriteFailed(h1) THEN "write" ELSE "nil")

InitDBAllowed(h, c, useDB) ==
  LET h1 == Call(h, "ExecuteUseDB", useDB)
      h2 == writeOKPacket(h1, 0, 0, StatusFlags[c], 0)
  IN IF ~useDB THEN Return(h1, "collab")
     ELSE Return(h2, IF WriteFailed(h2) THEN "write" ELSE "nil")

handleInitDB(c, db, useDB, wf) ==
  LET h0 == recycleReadPacket(Begin("COM_INIT_DB", db, wf, 0))
      h1 == Call(h0, "GetClusters", TRUE)
  IN IF ~allow(GetClusters(Tenant[c]), db) THEN InitDBDenied(h1, db)
     ELSE InitDBAllowed(h1, c, useDB)

HandleInitDB(c) ==
  /\ Idle(c)
  /\ \E db \in DBNames, useDB \in BOOLEAN, wf \in 0..MaxWriteFail :
    /\ last' = [conn |-> c] @@ handleInitDB(c, db, useDB, wf)
    /\ Schema' = [Schema EXCEPT ![c] = InitDBSchema(c, db)]
    /\ UNCHANGED <<Capabilities, StatusFlags, statementID, stmts, pc, pstmt, frame>>

(***************************************************************************)
(* handleSetOption                                                         *)
(***************************************************************************)
\* readUint16(data, pos): little endian, ok iff two bytes are there.
\* Go's pos is 0-based: byte pos is data[pos + 1] here.
readUint16(data, pos) == IF Len(data) < pos + 2 THEN [v |-> 0, ok |-> FALSE] ELSE [v |-> data[pos + 1] + 256 * data[pos + 2], ok |-> TRUE]

\* COM_SET_OPTION payloads: operations 0, 1, 2 and 256, and two short packets
SetOptionData == {<<ComSetOption, 0, 0>>, <<ComSetOption, 1, 0>>, <<ComSetOption, 2, 0>>, <<ComSetOption, 0, 1>>, <<ComSetOption>>, <<ComSetOption, 0>>}

\* fmt's %v of a byte slice: "[27 0 0]"
RECURSIVE JoinBytes(_)
JoinBytes(data) == IF data = <<>> THEN "" ELSE IF Len(data) = 1 THEN ToString(data[1]) ELSE ToString(data[1]) \o " " \o JoinBytes(Tail(data))

FormatBytes(data) == "[" \o JoinBytes(data) \o "]"

\* the two cases of the switch exchanged
SetOptionCapabilitiesSwapped(caps, data) ==
  LET op == readUint16(data, 1)
  IN IF ~op.ok THEN caps
     ELSE IF op.v = 1 THEN BitOr(caps, CapabilityClientMultiStatements)
     ELSE IF op.v = 0 THEN BitAndNot(caps, CapabilityClientMultiStatements)
     ELSE caps

\* the switch on operation: what it leaves in c.Capabilities
SetOptionCapabilities(caps, data) ==
  LET op == readUint16(data, 1)
  IN IF ~op.ok THEN caps
     ELSE IF op.v = 0 THEN BitOr(caps, CapabilityClientMultiStatements)
     ELSE IF op.v = 1 THEN BitAndNot(caps, CapabilityClientMultiStatements)
     ELSE caps

\* line 384-389: the error packet every path that reaches the end writes
SetOptionTail(h, data) == LET h1 == writeErrorPacket(h, ERUnknownComError, "error handling packet: " \o FormatBytes(data)) IN Return(h1, IF WriteFailed(h1) THEN "write" ELSE "nil")

\* line 379-383: the end-of-result written after the switch
SetOptionEnd(h, c, data) == LET h1 == writeEndResult(h, StatusFlags[c], FALSE, 0) IN IF WriteFailed(h1) THEN Return(h1, "write") ELSE SetOptionTail(h1, data)

\* line 372-377: the default case of the switch
SetOptionDefault(h, c, data) == LET h1 == writeErrorPacket(h, ERUnknownComError, "error handling packet: " \o FormatBytes(data)) IN IF WriteFailed(h1) THEN Return(h1, "write") ELSE SetOptionEnd(h1, c, data)

handleSetOption(c, data, wf) ==
  LET op == readUint16(data, 1)
      h0 == recycleReadPacket(Begin("COM_SET_OPTION", data, wf, 0))
  IN IF ~op.ok THEN SetOptionTail(h0, data)
     ELSE IF op.v = 0 \/ op.v = 1 THEN SetOptionEnd(h0, c, data)
     ELSE SetOptionDefault(h0, c, data)

HandleSetOption(c) ==
  /\ Idle(c)
  /\ \E data \in SetOptionData, wf \in 0..MaxWriteFail :
    /\ last' = [conn |-> c] @@ handleSetOption(c, data, wf)
    /\ Capabilities' = [Capabilities EXCEPT ![c] = SetOptionCapabilities(@, data)]
    /\ UNCHANGED <<Schema, StatusFlags, statementID, stmts, pc, pstmt, frame>>

(***************************************************************************)
(* handleFieldList                                                         *)
(***************************************************************************)
\* what executor.ExecuteFieldList returns: n fields, or an error and none
FieldListResults == {[n |-> n, ok |-> TRUE] : n \in 0..MaxFields} \cup {[n |-> 0, ok |-> FALSE]}

\* line 195-208: the column definitions and one EOF(0, 2), as one burst
FieldListBurst(h, n) == LET h1 == writePacket(h, [t |-> "FIELDLIST", n |-> n, warn |-> 0, status |-> 2]) IN Return(h1, IF WriteFailed(h1) THEN "write" ELSE "nil")

\* line 186-193: the error packet for an executor error, with no return after it
FieldListError(h, n) == LET h1 == writeErrorPacketFromError(h, CollabError("ExecuteFieldList")) IN IF WriteFailed(h1) THEN Return(h1, "write") ELSE FieldListBurst(h1, n)

\* the read packet recycled only after the executor has answered
handleFieldListLateRecycle(c, res, wf) ==
  LET h0 == Begin("COM_FIELD_LIST", <<>>, wf, 0)
      h1 == recycleReadPacket(Call(h0, "ExecuteFieldList", res.ok))
  IN IF ~res.ok THEN FieldListError(h1, res.n) ELSE FieldListBurst(h1, res.n)

handleFieldList(c, res, wf) ==
  LET h0 == recycleReadPacket(Begin("COM_FIELD_LIST", <<>>, wf, 0))
      h1 == Call(h0, "ExecuteFieldList", res.ok)
  IN IF ~res.ok THEN FieldListError(h1, res.n) ELSE FieldListBurst(h1, res.n)

HandleFieldList(c) ==
  /\ Idle(c)
  /\ \E res \in FieldListResults, wf \in 0..MaxWriteFail :
    /\ last' = [conn |-> c] @@ handleFieldList(c, res, wf)
    /\ UNCHANGED <<Schema, Capabilities, StatusFlags, statementID, stmts, pc, pstmt, frame>>

(***************************************************************************)
(* handleQuery                                                             *)
(***************************************************************************)
\* What the executor may hand to the callback as (result, warns, failure):
\*   fail   failure # nil
\*   nil    result = nil, failure = nil
\*   dserr  result.Dataset() returns an error
\*   ok     result.Dataset() returns nil: a write-only result
\*   ds     result.Dataset() returns a dataset
CallbackResults == {[k |-> "fail", warn |-> 0, affected |-> 0, insertId |-> 0, fields |-> 0, rows |-> 0], [k |-> "nil", warn |-> 0, affected |-> 0, insertId |-> 0, fields |-> 0, rows |-> 0], [k |-> "dserr", warn |-> 0, affected |-> 0, insertId |-> 0, fields |-> 0, rows |-> 0], [k |-> "ok", warn |-> 1, affected |-> 3, insertId |-> 7, fields |-> 0, rows |-> 0], [k |-> "ds", warn |-> 2, affected |-> 0, insertId |-> 0, fields |-> 2, rows |-> 1]}

writeFields(h, n) == writePacket(h, [t |-> "FIELDS", n |-> n])

writeDataset(h, rows) == writePacket(h, [t |-> "ROWS", n |-> rows, binary |-> FALSE])

\* hasMore ignored: the flag is always set
OnceStatusFlagAlways(status, hasMore) == BitOr(status, ServerMoreResultsExists)

\* line 122-125: statusFlag := c.StatusFlags; if hasMore { statusFlag |= ServerMoreResultsExists }
OnceStatusFlag(status, hasMore) == IF hasMore THEN BitOr(status, ServerMoreResultsExists) ELSE status

\* a function body's outcome: the run so far and whether it returns an error
Outcome(h) == [h |-> h, err |-> WriteFailed(h)]

\* line 134-148: fields, rows, end-of-result
OnceDataset(h, c, res, hasMore) ==
  LET h1 == writeFields(h, res.fields)
      h2 == writeDataset(h1, res.rows)
      h3 == writeEndResult(h2, StatusFlags[c], hasMore, res.warn)
  IN IF WriteFailed(h1) THEN Outcome(h1)
     ELSE IF WriteFailed(h2) THEN Outcome(h2)
     ELSE Outcome(h3)

\* the return after the ERR packet of a Dataset() error left out: ds is nil
\* and the OK packet of a write-only result follows
OnceBodyNoReturn(h, c, res, hasMore) ==
  IF res.k = "fail" THEN Outcome(writeErrorPacketFromError(h, CollabError("ExecutorComQuery")))
  ELSE IF res.k = "nil" THEN Outcome(writeErrorPacketFromError(h, NewSQLError(ERBadNullError, "un dataset")))
  ELSE LET h1 == Call(h, "Dataset", res.k # "dserr")
           h2 == writeErrorPacketFromError(h1, CollabError("Dataset"))
       IN IF res.k = "dserr" /\ WriteFailed(h2) THEN Outcome(h2)
          ELSE IF res.k \in {"dserr", "ok"} THEN Outcome(writeOKPacket(IF res.k = "dserr" THEN h2 ELSE h1, res.affected, res.insertId, OnceStatusFlag(StatusFlags[c], hasMore), res.warn))
          ELSE OnceDataset(h1, c, res, hasMore)

\* line 82-148: the body of handleOnce, between startWriterBuffering and the deferred flush
OnceBody(h, c, res, hasMore) ==
  IF res.k = "fail" THEN Outcome(writeErrorPacketFromError(h, CollabError("ExecutorComQuery")))
  ELSE IF res.k = "nil" THEN Outcome(writeErrorPacketFromError(h, NewSQLError(ERBadNullError, "un dataset")))
  ELSE LET h1 == Call(h, "Dataset", res.k # "dserr")
       IN IF res.k = "dserr" THEN Outcome(writeErrorPacketFromError(h1, CollabError("Dataset")))
          ELSE IF res.k = "ok" THEN Outcome(writeOKPacket(h1, res.affected, res.insertId, OnceStatusFlag(StatusFlags[c], hasMore), res.warn))
          ELSE OnceDataset(h1, c, res, hasMore)

\* line 74-149: result i of the command is streamed with has_more = hasMore
handleOnce(h, c, res, i, hasMore) ==
  LET h1 == startWriterBuffering(Event(h, [e |-> "once", i |-> i, k |-> res.k, more |-> hasMore]))
      b == OnceBody(h1, c, res, hasMore)
  IN [h |-> endWriterBuffering(b.h), err |-> b.err]

\* line 157-169: the callback, invoked for result i; prev is result i - 1
QueryCallback(h, c, results, i) ==
  LET h1 == Event(h, [e |-> "callback", i |-> i, k |-> results[i].k])
  IN IF i > 1 THEN handleOnce(h1, c, results[i - 1], i - 1, TRUE) ELSE [h |-> h1, err |-> FALSE]

\* executor.ExecutorComQuery: invokes the callback once per result, in order,
\* returns the callback's error at once, and its own error (unless ok) at the end
RECURSIVE ExecutorComQuery(_, _, _, _, _)
ExecutorComQuery(h, c, results, ok, i) ==
  IF i > Len(results) THEN [h |-> Event(h, [e |-> "return", f |-> "ExecutorComQuery", ok |-> ok]), err |-> ~ok, cb |-> FALSE]
  ELSE LET r == QueryCallback(h, c, results, i)
       IN IF r.err THEN [h |-> Event(r.h, [e |-> "return", f |-> "ExecutorComQuery", ok |-> FALSE]), err |-> TRUE, cb |-> TRUE]
          ELSE ExecutorComQuery(r.h, c, results, ok, i + 1)

\* line 174-180: the held-back result is streamed with has_more = false
QueryLast(h, c, results) ==
  LET n == Len(results)
      r == handleOnce(h, c, results[n], n, FALSE)
  IN IF n = 0 THEN Return(h, "nil")
     ELSE Return(r.h, IF r.err THEN "write" ELSE "nil")

handleQuery(c, results, ok, wf, ff) ==
  LET h0 == recycleReadPacket(Begin("COM_QUERY", <<>>, wf, ff))
      x == ExecutorComQuery(Event(h0, [e |-> "call", f |-> "ExecutorComQuery", ok |-> TRUE]), c, results, ok, 1)
  IN IF x.err THEN Return(x.h, IF x.cb THEN "write" ELSE "collab")
     ELSE QueryLast(x.h, c, results)

\* sequences of at most n callback results
ResultSeqs(n) == UNION {[1..m -> CallbackResults] : m \in 0..n}

HandleQuery(c) ==
  /\ Idle(c)
  /\ \E results \in ResultSeqs(MaxResults), ok \in BOOLEAN, io \in IOFailures :
    /\ last' = [conn |-> c] @@ handleQuery(c, results, ok, io[1], io[2])
    /\ UNCHANGED <<Schema, Capabilities, StatusFlags, statementID, stmts, pc, pstmt, frame>>

(***************************************************************************)
(* The statement registry and handlePrepare                                *)
(***************************************************************************)
\* A query text is a sequence of runs: n repetitions of the piece ch.
\* "?" is the placeholder; no other piece holds a "?".
HintMaster == "/*A! master */"
HintBogus == "/*A! bogus */"

Queries == {<<[ch |-> "SELECT 1", n |-> 1]>>, <<[ch |-> HintMaster, n |-> 1], [ch |-> "SELECT ", n |-> 1], [ch |-> "?", n |-> 2]>>, <<[ch |-> HintBogus, n |-> 1], [ch |-> "SELECT ", n |-> 1], [ch |-> "?", n |-> 1]>>, <<[ch |-> "SELECT ", n |-> 1], [ch |-> "?", n |-> Uint16Mod + 1]>>, <<[ch |-> "SELEC ", n |-> 1], [ch |-> "?", n |-> 1]>>}

\* strings.Count(query, sub) for a piece sub
RECURSIVE Count(_, _)
Count(query, sub) == IF query = <<>> THEN 0 ELSE (IF Head(query).ch = sub THEN Head(query).n ELSE 0) + Count(Tail(query), sub)

\* line 336: paramsCount := uint16(strings.Count(query, "?"))
ParamsCountOf(query) == Count(query, "?") % Uint16Mod

\* parser.ParseOneStmt: does the text parse as one statement
ParseOneStmt(query) == \A i \in 1..Len(query) : query[i].ch # "SELEC "

IsHint(run) == run.ch \in {HintMaster, HintBogus}

\* act.Hints(): the hint strings of the parsed statement, in order
HintsOf(query) == SelectSeq(query, IsHint)

\* hint.Parse
HintParse(run) == run.ch = HintMaster

\* a nil map, and make(map[string]proto.Value, cap)
NilMap == [nil |-> TRUE, keys |-> {}, cap |-> 0]

MakeMap(cap) == [nil |-> FALSE, keys |-> {}, cap |-> cap]

\* l.statementID.Inc(): the atomic increment of the uint32 counter, returning
\* the new value; 4294967295 is followed by 0
Inc(x) == IF x[2] + 1 < Uint16Mod THEN <<x[1], x[2] + 1>> ELSE <<(x[1] + 1) % Uint16Mod, 0>>

\* line 309-312: the statement as first built
NewStmt(id, query) == [StatementID |-> id, PrepareStmt |-> query, ParamsCount |-> 0, ParamsType |-> <<>>, BindVars |-> NilMap, Hints |-> <<>>, StmtNode |-> "nil"]

\* line 334-342: the parsed statement and the parameter fields
PrepareParams(stmt, hints) ==
  LET paramsCount == ParamsCountOf(stmt.PrepareStmt)
      s1 == [stmt EXCEPT !.Hints = hints, !.StmtNode = "ast"]
  IN IF paramsCount > 0 THEN [s1 EXCEPT !.ParamsCount = paramsCount, !.ParamsType = [i \in 1..paramsCount |-> 0], !.BindVars = MakeMap(paramsCount)]
     ELSE s1

\* l.stmts.Store(id, stmt)
Store(reg, id, stmt) == (id :> stmt) @@ reg

\* where handlePrepare stands: the run, the value returned ("none" when it
\* has yet to return), and the statement stored if any
PrepareReturn(h, ret, store, stmt) == [h |-> h, ret |-> ret, store |-> store, stmt |-> stmt]

\* line 334-346: the statement is stored and trace.Extract called; the
\* handler has yet to write the prepare response
PrepareStore(h, stmt, hints) ==
  LET s1 == PrepareParams(stmt, hints)
      h1 == Event(h, [e |-> "store", id |-> s1.StatementID])
      h2 == Call(h1, "trace.Extract", TRUE)
  IN PrepareReturn(h2, "none", TRUE, s1)

\* line 348: c.writePrepare(stmt), whose error is the handler's
writePrepare(h, stmt) ==
  LET h1 == writePacket(h, [t |-> "PREPARE", id |-> stmt.StatementID, columns |-> 0, params |-> stmt.ParamsCount])
  IN Return(h1, IF WriteFailed(h1) THEN "write" ELSE "nil")

\* line 323-332: the loop over the hints; a hint that fails to parse gets an
\* error packet and is appended as nil
RECURSIVE PrepareHints(_, _, _, _)
PrepareHints(h, stmt, todo, hints) ==
  IF todo = <<>> THEN PrepareStore(h, stmt, hints)
  ELSE LET ok == HintParse(Head(todo))
           h1 == Call(h, "hint.Parse", ok)
           h2 == IF ok THEN h1 ELSE writeErrorPacketFromError(h1, CollabError("hint.Parse"))
       IN IF ~ok /\ WriteFailed(h2) THEN PrepareReturn(h2, "write", FALSE, stmt)
          ELSE PrepareHints(h2, stmt, Tail(todo), Append(hints, IF ok THEN Head(todo).ch ELSE "nil"))

\* line 313-321: a text that does not parse gets an error packet; the handler
\* goes on to act.Hints() with act = nil, which panics
PrepareParseError(h, stmt) ==
  LET h1 == writeErrorPacketFromError(h, CollabError("ParseOneStmt"))
  IN PrepareReturn(h1, IF WriteFailed(h1) THEN "write" ELSE "panic", FALSE, stmt)

\* handlePrepare from line 309 to line 346, with the statement id already taken
handlePrepare(c, id, query, wf) ==
  LET h0 == Event(recycleReadPacket(Begin("COM_STMT_PREPARE", query, wf, 0)), [e |-> "Inc", id |-> id])
      stmt == NewStmt(id, query)
      ok == ParseOneStmt(query)
      h1 == Call(h0, "ParseOneStmt", ok)
  IN IF ~ok THEN PrepareParseError(h1, stmt) ELSE PrepareHints(h1, stmt, HintsOf(query), <<>>)

\* line 302-307: the read packet is recycled and the statement id is taken
PrepareInc(c, texts) ==
  /\ Idle(c)
  /\ \E query \in texts :
    /\ (Less32(statementID, Uint32(MaxPrepares)) \/ statementID = MaxUint32)
    /\ statementID' = Inc(statementID)
    /\ pc' = [pc EXCEPT ![c] = "prepare"]
    /\ pstmt' = [pstmt EXCEPT ![c] = <<[id |-> Inc(statementID), query |-> query]>>]
    /\ UNCHANGED <<Schema, Capabilities, StatusFlags, stmts, frame, last>>

\* The handler writes its packets straight to the socket and waits there
\* while other connections run: after the id is taken, and after the
\* statement is stored.
\*
\* line 309-346: the text and its hints are parsed and the statement is
\* stored; a handler that ends before the store (the write of an error
\* packet failed, or the panic of line 323) returns here
PrepareParse(c) ==
  /\ pc[c] = "prepare"
  /\ last = NoRun
  /\ \E wf \in WriteFailures(handlePrepare(c, pstmt[c][1].id, pstmt[c][1].query, 0).h) :
       LET r == handlePrepare(c, pstmt[c][1].id, pstmt[c][1].query, wf)
       IN IF r.store
          THEN /\ stmts' = Store(stmts, r.stmt.StatementID, r.stmt)
               /\ frame' = [frame EXCEPT ![c] = <<[h |-> r.h, stmt |-> r.stmt]>>]
               /\ pc' = [pc EXCEPT ![c] = "prepared"]
               /\ UNCHANGED last
          ELSE /\ last' = [conn |-> c, tr |-> r.h.tr, ret |-> r.ret]
               /\ pc' = [pc EXCEPT ![c] = "idle"]
               /\ UNCHANGED <<stmts, frame>>
  /\ pstmt' = [pstmt EXCEPT ![c] = <<>>]
  /\ UNCHANGED <<Schema, Capabilities, StatusFlags, statementID>>

\* line 348: the prepare response is written and the handler returns
PrepareReply(c) ==
  /\ pc[c] = "prepared"
  /\ last = NoRun
  /\ \E wf \in NextWriteFailures(frame[c][1].h) : last' = [conn |-> c] @@ writePrepare(FailWrite(frame[c][1].h, wf), frame[c][1].stmt)
  /\ frame' = [frame EXCEPT ![c] = <<>>]
  /\ pc' = [pc EXCEPT ![c] = "idle"]
  /\ UNCHANGED <<Schema, Capabilities, StatusFlags, statementID, stmts, pstmt>>

\* handlePrepare on connection c after line 307, step by step
PrepareFinish(c) == PrepareParse(c) \/ PrepareReply(c)

(***************************************************************************)
(* handleStmtExecute                                                       *)
(***************************************************************************)
\* A COM_STMT_EXECUTE payload: whether the statement id can be read, the id,
\* and the rest of the header: "bad" (malformed after the id) or "new"
\* (well formed, new-params-bound flag set, the parameter types follow).
ExecuteData == {[ok |-> ok, id |-> id, hdr |-> hdr] : ok \in BOOLEAN, id \in {Uint32(n) : n \in 0..(MaxPrepares + 1)}, hdr \in {"bad", "new"}}

\* the key of the i-th bind variable: fmt.Sprintf("v%d", i)
BindKey(i) == "v" \o ToString(i)

\* parseComStmtExecute on a statement found in the registry: the parameter
\* types are filled when the client sends them, and one bind variable is
\* stored per parameter type
ParseBind(stmt, hdr) ==
  LET types == IF hdr = "new" THEN [i \in 1..stmt.ParamsCount |-> FieldTypeLongLong] ELSE stmt.ParamsType
  IN [stmt EXCEPT !.ParamsType = types, !.BindVars.keys = @ \cup {BindKey(i) : i \in 1..Len(types)}]

\* c.parseComStmtExecute(&l.stmts, data): the statement id (0 when it cannot
\* be read or is not in the registry), the error, and the registry it leaves
parseComStmtExecute(reg, data) ==
  IF ~data.ok THEN [stmtID |-> Uint32(0), ok |-> FALSE, err |-> NewSQLError(CRMalformedPacket, "reading statement ID failed"), reg |-> reg]
  ELSE IF data.id \notin DOMAIN reg THEN [stmtID |-> Uint32(0), ok |-> FALSE, err |-> NewSQLError(CRCommandsOutOfSync, "statement ID is not found from record"), reg |-> reg]
  ELSE IF data.hdr = "bad" THEN [stmtID |-> data.id, ok |-> FALSE, err |-> NewSQLError(CRMalformedPacket, "reading header failed"), reg |-> reg]
  ELSE [stmtID |-> data.id, ok |-> TRUE, err |-> NewSQLError(0, ""), reg |-> [reg EXCEPT ![data.id] = ParseBind(@, data.hdr)]]

\* What executor.ExecutorComStmtExecute may return as (result, warns, err):
\*   err    err # nil
\*   nil    result = nil, err = nil
\*   dserr  result.Dataset() returns an error
\*   ok     result.Dataset() returns nil: a write-only result
\*   ds     result.Dataset() returns a dataset
ExecuteResults == {[k |-> k, warn |-> 1, affected |-> 3, insertId |-> 7, fields |-> 2, rows |-> 1] : k \in {"err", "nil", "dserr", "ok", "ds"}}

\* the executor writing a bind variable of its own into ctx.Stmt.BindVars,
\* a non-nil map
ExecutorMutates(stmt) == IF ~stmt.BindVars.nil THEN [stmt EXCEPT !.BindVars.keys = @ \cup {"x"}] ELSE stmt

writeDatasetBinary(h, rows) == writePacket(h, [t |-> "ROWS", n |-> rows, binary |-> TRUE])

\* line 227: the deferred reset is registered for a non-zero statement id
DeferReset(stmtID) == stmtID # Uint32(0)

\* line 232: prepareStmt.BindVars = make(map[string]proto.Value, prepareStmt.ParamsCount)
ResetBindVars(stmt) == [stmt EXCEPT !.BindVars = MakeMap(stmt.ParamsCount)]

\* the outcome of the body of handleStmtExecute: the run, the value returned,
\* the registry, and whether ds.Close() was deferred
ExecuteOutcome(h, ret, reg, close) == [h |-> h, ret |-> ret, reg |-> reg, close |-> close]

WriteReturn(h) == IF WriteFailed(h) THEN "write" ELSE "nil"

\* line 292-299: the rows are fetched from the dataset and written in the
\* binary encoding, then the end of the result
ExecuteRows(h, c, exec, reg) ==
  LET h1 == writeDatasetBinary(h, exec.rows)
      h2 == writeEndResult(h1, StatusFlags[c], FALSE, exec.warn)
  IN IF WriteFailed(h1) THEN ExecuteOutcome(h1, "write", reg, TRUE)
     ELSE ExecuteOutcome(h2, WriteReturn(h2), reg, TRUE)

\* line 283-291: the dataset is closed on return; the fields are written, and
\* the handler goes on to fetch the rows (it has not returned: "none")
ExecuteDataset(h, c, exec, reg) ==
  LET h1 == writeFields(h, exec.fields)
  IN IF WriteFailed(h1) THEN ExecuteOutcome(h1, "write", reg, TRUE)
     ELSE ExecuteOutcome(h1, "none", reg, TRUE)

\* line 262-281: result.Dataset(); a nil result panics there
ExecuteResult(h, c, exec, reg) ==
  LET h1 == Call(h, "Dataset", exec.k # "dserr")
      h2 == writeErrorPacketFromError(h1, CollabError("Dataset"))
      h3 == writeOKPacket(h1, exec.affected, exec.insertId, StatusFlags[c], exec.warn)
  IN IF exec.k = "nil" THEN ExecuteOutcome(h, "panic", reg, FALSE)
     ELSE IF exec.k = "dserr" THEN ExecuteOutcome(h2, WriteReturn(h2), reg, FALSE)
     ELSE IF exec.k = "ok" THEN ExecuteOutcome(h3, WriteReturn(h3), reg, FALSE)
     ELSE ExecuteDataset(h1, c, exec, reg)

\* the return after the ERR packet of a parse error left out: the handler goes
\* on to the lookup of line 246 and the type assertion of line 247
ExecuteBodyNoReturn(h, c, p, exec) ==
  LET h1 == writeErrorPacketFromError(h, p.err)
      h2 == Call(IF p.ok THEN h ELSE h1, "ExecutorComStmtExecute", exec.k # "err")
      h3 == writeErrorPacketFromError(h2, CollabError("ExecutorComStmtExecute"))
  IN IF ~p.ok /\ WriteFailed(h1) THEN ExecuteOutcome(h1, "write", p.reg, FALSE)
     ELSE IF p.stmtID \notin DOMAIN p.reg THEN ExecuteOutcome(h1, "panic", p.reg, FALSE)
     ELSE IF exec.k = "err" THEN ExecuteOutcome(h3, WriteReturn(h3), p.reg, FALSE)
     ELSE ExecuteResult(h2, c, exec, p.reg)

\* line 237-260: the parse error, the lookup, the executor
ExecuteBody(h, c, p, exec) ==
  LET h1 == writeErrorPacketFromError(h, p.err)
      h2 == Call(h, "ExecutorComStmtExecute", exec.k # "err")
      h3 == writeErrorPacketFromError(h2, CollabError("ExecutorComStmtExecute"))
  IN IF ~p.ok THEN ExecuteOutcome(h1, WriteReturn(h1), p.reg, FALSE)
     ELSE IF exec.k = "err" THEN ExecuteOutcome(h3, WriteReturn(h3), p.reg, FALSE)
     ELSE ExecuteResult(h2, c, exec, p.reg)

\* line 227-235 and 283-285: the deferred functions that run before the one
\* of line 213 when the handler returns: ds.Close(), then the bind variables
\* of the descriptor now stored under the id are replaced
ExecuteDeferred(b, stmtID) ==
  LET found == DeferReset(stmtID) /\ stmtID \in DOMAIN b.reg
      h1 == IF b.close THEN Call(b.h, "Close", TRUE) ELSE b.h
      h2 == IF found THEN Event(h1, [e |-> "reset", id |-> stmtID]) ELSE h1
  IN ExecuteOutcome(h2, b.ret, IF found THEN [b.reg EXCEPT ![stmtID] = ResetBindVars(@)] ELSE b.reg, FALSE)

\* the executor's answer matters only when the executor is called
ExecuteCanon == [k |-> "ok", warn |-> 1, affected |-> 3, insertId |-> 7, fields |-> 2, rows |-> 1]

\* the payloads that differ in what the handler does with the registry reg
ExecuteInputs(reg) == {d \in ExecuteData : (~d.ok => d.id = Uint32(0)) /\ ((~d.ok \/ d.id \notin DOMAIN reg) => d.hdr = "new")}

\* The handler's frame while it runs on a connection: the payload, the run so
\* far, what parseComStmtExecute returned, the executor's answer and the
\* value the body returned.
ExecuteFrame(data, h, p, exec, ret) == [data |-> data, h |-> h, p |-> [stmtID |-> p.stmtID, ok |-> p.ok, err |-> p.err], exec |-> exec, ret |-> ret]

\* what parseComStmtExecute returned, beside the registry as it is now
Parsed(p, reg) == [stmtID |-> p.stmtID, ok |-> p.ok, err |-> p.err, reg |-> reg]

\* the run h when its next flush is (ff = 1) or is not (ff = 0) the one that fails
FailFlush(h, ff) == [h EXCEPT !.ff = ff]

\* The handler runs in steps, split where it waits while other connections
\* run theirs: inside the executor, in the row fetches of the dataset and in
\* the flush of the buffer to the socket.  It holds no lock on the
\* descriptor, which every connection reaches through the registry.
\*
\* line 212-254: buffering starts; parseComStmtExecute fills the parameter
\* types and the bind variables of the descriptor, and the executor is called
\* with it; on an error of the parse the ERR packet is written (line 237-244)
\* and the deferred reset runs
ExecuteParse(c) ==
  /\ Idle(c)
  /\ \E data \in ExecuteInputs(stmts) :
       LET h0 == startWriterBuffering(Begin("COM_STMT_EXECUTE", data, 0, 0))
           p == parseComStmtExecute(stmts, data)
           h1 == recycleReadPacket(Event(h0, [e |-> "parse", id |-> p.stmtID, ok |-> p.ok]))
       IN IF p.ok
          THEN /\ stmts' = p.reg
               /\ frame' = [frame EXCEPT ![c] = <<ExecuteFrame(data, h1, p, ExecuteCanon, "none")>>]
               /\ pc' = [pc EXCEPT ![c] = "executing"]
          ELSE \E wf \in WriteFailures(ExecuteBody(h1, c, p, ExecuteCanon).h) :
                 LET b == ExecuteDeferred(ExecuteBody(FailWrite(h1, wf), c, p, ExecuteCanon), p.stmtID)
                 IN /\ stmts' = b.reg
                    /\ frame' = [frame EXCEPT ![c] = <<ExecuteFrame(data, b.h, p, ExecuteCanon, b.ret)>>]
                    /\ pc' = [pc EXCEPT ![c] = "flush"]
  /\ UNCHANGED <<Schema, Capabilities, StatusFlags, statementID, pstmt, last>>

\* line 254: the executor, while it runs, writes a bind variable of its own
\* into the map the descriptor holds by then ("VTGate.Execute() mutates it")
ExecutorWrites(c) ==
  /\ pc[c] = "executing"
  /\ last = NoRun
  /\ LET id == frame[c][1].p.stmtID
     IN /\ ExecutorMutates(stmts[id]) # stmts[id]
        /\ stmts' = [stmts EXCEPT ![id] = ExecutorMutates(@)]
  /\ UNCHANGED <<Schema, Capabilities, StatusFlags, statementID, pc, pstmt, frame, last>>

\* line 254-291: the executor returns and its result is written into the
\* buffer.  With a dataset whose fields are written the handler goes on to
\* the row fetches; every other path returns, and the deferred Close
\* (line 283-285) and reset (line 227-235) run
ExecuteReturn(c) ==
  /\ pc[c] = "executing"
  /\ last = NoRun
  /\ \E exec \in ExecuteResults : \E wf \in WriteFailures(ExecuteBody(frame[c][1].h, c, Parsed(frame[c][1].p, stmts), exec).h) :
       LET f == frame[c][1]
           b == ExecuteBody(FailWrite(f.h, wf), c, Parsed(f.p, stmts), exec)
           d == ExecuteDeferred(b, f.p.stmtID)
       IN IF b.ret = "none"
          THEN /\ frame' = [frame EXCEPT ![c] = <<ExecuteFrame(f.data, b.h, f.p, exec, "none")>>]
               /\ pc' = [pc EXCEPT ![c] = "rows"]
               /\ UNCHANGED stmts
          ELSE /\ stmts' = d.reg
               /\ frame' = [frame EXCEPT ![c] = <<ExecuteFrame(f.data, d.h, f.p, ExecuteCanon, d.ret)>>]
               /\ pc' = [pc EXCEPT ![c] = "flush"]
  /\ UNCHANGED <<Schema, Capabilities, StatusFlags, statementID, pstmt, last>>

\* line 292-299, 283-285 and 227-235: the rows are fetched and written, then
\* the end of the result; the handler returns, and the deferred Close and
\* reset run
ExecuteFetch(c) ==
  /\ pc[c] = "rows"
  /\ last = NoRun
  /\ \E wf \in {0} \cup {w \in WriteFailures(ExecuteRows(frame[c][1].h, c, frame[c][1].exec, stmts).h) : w > frame[c][1].h.nw} :
       LET f == frame[c][1]
           d == ExecuteDeferred(ExecuteRows(FailWrite(f.h, wf), c, f.exec, stmts), f.p.stmtID)
       IN /\ stmts' = d.reg
          /\ frame' = [frame EXCEPT ![c] = <<ExecuteFrame(f.data, d.h, f.p, ExecuteCanon, d.ret)>>]
  /\ pc' = [pc EXCEPT ![c] = "flush"]
  /\ UNCHANGED <<Schema, Capabilities, StatusFlags, statementID, pstmt, last>>

\* line 213-217: the flush, of which at most the error is logged; the handler
\* has returned
ExecuteFlush(c) ==
  /\ pc[c] = "flush"
  /\ last = NoRun
  /\ \E ff \in 0..MaxFlushFail :
       LET f == frame[c][1]
       IN /\ ff > 0 => WritesOK(f.h)
          /\ last' = [conn |-> c, tr |-> endWriterBuffering(FailFlush(f.h, ff)).tr, ret |-> f.ret]
  /\ frame' = [frame EXCEPT ![c] = <<>>]
  /\ pc' = [pc EXCEPT ![c] = "idle"]
  /\ UNCHANGED <<Schema, Capabilities, StatusFlags, statementID, stmts, pstmt>>

\* connection c is inside the executor with the descriptor stored under id,
\* whose bind variables the executor reads and writes
InBindVars(c, id) == pc[c] = "executing" /\ frame[c][1].p.stmtID = id

\* connection c is about to write the map of bind variables another
\* connection's executor works on: in parseComStmtExecute, or in its own
\* executor
Racing(c) ==
  \/ /\ pc[c] = "idle"
     /\ \E data \in ExecuteInputs(stmts) :
          /\ parseComStmtExecute(stmts, data).ok
          /\ stmts[data.id].ParamsCount > 0
          /\ \E o \in Conns \ {c} : InBindVars(o, data.id)
  \/ /\ pc[c] = "executing"
     /\ ~stmts[frame[c][1].p.stmtID].BindVars.nil
     /\ \E o \in Conns \ {c} : InBindVars(o, frame[c][1].p.stmtID)

\* The accesses to the map are not synchronised, and the Go runtime may end
\* the process with "fatal error: concurrent map writes" (or "concurrent map
\* read and map write")
ExecuteAbort(c) ==
  /\ last = NoRun
  /\ Racing(c)
  /\ pc' = [x \in Conns |-> "fatal"]
  /\ UNCHANGED <<Schema, Capabilities, StatusFlags, statementID, stmts, pstmt, frame, last>>

\* handleStmtExecute on connection c, step by step
HandleStmtExecute(c) == ExecuteParse(c) \/ ExecutorWrites(c) \/ ExecuteReturn(c) \/ ExecuteFetch(c) \/ ExecuteFlush(c) \/ ExecuteAbort(c)

(***************************************************************************)
(* handleStmtReset                                                         *)
(***************************************************************************)
\* readUint32(data, pos): little endian, ok iff four bytes are there
readUint32(data, pos) == IF Len(data) < pos + 4 THEN [v |-> Uint32(0), ok |-> FALSE] ELSE [v |-> <<data[pos + 3] + 256 * data[pos + 4], data[pos + 1] + 256 * data[pos + 2]>>, ok |-> TRUE]

\* COM_STMT_RESET payloads: the ids 0..MaxPrepares+1, id 256, and a short packet
ResetData == {<<ComStmtReset, id, 0, 0, 0>> : id \in 0..(MaxPrepares + 1)} \cup {<<ComStmtReset, 0, 1, 0, 0>>, <<ComStmtReset, 1>>}

\* the whole descriptor re-initialised, not only its bind variables
ResetStmtTypes(stmt) == [stmt EXCEPT !.BindVars = MakeMap(0), !.ParamsType = <<>>]

\* line 357: prepareStmt.BindVars = make(map[string]proto.Value)
ResetStmt(stmt) == [stmt EXCEPT !.BindVars = MakeMap(0)]

\* line 352-359: the registry handleStmtReset leaves
ResetRegistry(reg, data) ==
  LET id == readUint32(data, 1)
  IN IF id.ok /\ id.v \in DOMAIN reg THEN [reg EXCEPT ![id.v] = ResetStmt(@)] ELSE reg

handleStmtReset(c, data, wf) ==
  LET h0 == recycleReadPacket(Begin("COM_STMT_RESET", data, wf, 0))
      h1 == writeOKPacket(h0, 0, 0, StatusFlags[c], 0)
  IN Return(h1, WriteReturn(h1))

\* The handler writes its reply straight to the socket, and other
\* connections run while it waits there.
\*
\* line 352-359: the bind variables of the descriptor are replaced
ResetStore(c) ==
  /\ Idle(c)
  /\ \E data \in ResetData :
       /\ stmts' = ResetRegistry(stmts, data)
       /\ frame' = [frame EXCEPT ![c] = <<[data |-> data]>>]
  /\ pc' = [pc EXCEPT ![c] = "reply"]
  /\ UNCHANGED <<Schema, Capabilities, StatusFlags, statementID, pstmt, last>>

\* line 360: the OK packet is written and the handler returns
ResetReply(c) ==
  /\ pc[c] = "reply"
  /\ last = NoRun
  /\ \E wf \in 0..MaxWriteFail : last' = [conn |-> c] @@ handleStmtReset(c, frame[c][1].data, wf)
  /\ frame' = [frame EXCEPT ![c] = <<>>]
  /\ pc' = [pc EXCEPT ![c] = "idle"]
  /\ UNCHANGED <<Schema, Capabilities, StatusFlags, statementID, stmts, pstmt>>

\* handleStmtReset on connection c, step by step
HandleStmtReset(c) == ResetStore(c) \/ ResetReply(c)

(***************************************************************************)
(* Initial state and the session-level specification.                      *)
(***************************************************************************)
\* two connections between commands, on a listener whose counter holds
\* counter and whose registry is reg
Listening(counter, reg) ==
  /\ Schema = [c \in Conns |-> ""]
  /\ Capabilities = [c \in Conns |-> CapabilityClientProtocol41]
  /\ StatusFlags = [c \in Conns |-> IF c = "c1" THEN ServerStatusAutocommit ELSE ServerStatusAutocommit + ServerStatusInTrans]
  /\ statementID = counter
  /\ stmts = reg
  /\ pc = [c \in Conns |-> "idle"]
  /\ pstmt = [c \in Conns |-> <<>>]
  /\ frame = [c \in Conns |-> <<>>]
  /\ last = NoRun

\* the listener as constructed
Init == Listening(Uint32(0), <<>>)

\* the connection-level commands: COM_INIT_DB, COM_SET_OPTION, COM_FIELD_LIST, COM_QUERY
NextConn == NextCommand \/ \E c \in Conns : HandleInitDB(c) \/ HandleSetOption(c) \/ HandleFieldList(c) \/ HandleQuery(c)

SpecConn == Init /\ [][NextConn]_vars

\* COM_STMT_PREPARE alone, on concurrent connections
NextPrepare == NextCommand \/ \E c \in Conns : PrepareInc(c, Queries) \/ PrepareFinish(c)

SpecPrepare == Init /\ [][NextPrepare]_vars

\* The listener after 4294967295 prepares: the counter holds the largest
\* uint32.  The first prepare stored "SELECT 1" under id 1; the others were of
\* texts that do not parse, which take an id and store nothing.
FirstQuery == <<[ch |-> "SELECT 1", n |-> 1]>>

InitWrapped == Listening(MaxUint32, Store(<<>>, Uint32(1), PrepareParams(NewStmt(Uint32(1), FirstQuery), <<>>)))

\* COM_STMT_PREPARE on concurrent connections as the counter wraps around
SpecWrapped == InitWrapped /\ [][NextPrepare]_vars

\* the texts clients prepare in SpecStmt: no placeholder, and two
StmtQueries == {q \in Queries : ParseOneStmt(q) /\ HintsOf(q) # <<>> /\ HintParse(HintsOf(q)[1])} \cup {q \in Queries : Count(q, "?") = 0}

\* the prepared-statement commands: COM_STMT_PREPARE, COM_STMT_EXECUTE, COM_STMT_RESET
NextStmt == NextCommand \/ \E c \in Conns : PrepareInc(c, StmtQueries) \/ PrepareFinish(c) \/ HandleStmtExecute(c) \/ HandleStmtReset(c)

SpecStmt == Init /\ [][NextStmt]_vars

\* every command on every connection; NextConn, NextPrepare and NextStmt are its
\* restrictions to groups of commands that touch disjoint parts of the state,
\* and the properties below are stated over those
Next == NextCommand \/ \E c \in Conns : HandleInitDB(c) \/ HandleSetOption(c) \/ HandleFieldList(c) \/ HandleQuery(c) \/ PrepareInc(c, Queries) \/ PrepareFinish(c) \/ HandleStmtExecute(c) \/ HandleStmtReset(c)

Spec == Init /\ [][Next]_vars

\* the connection-level commands leave the registry and the counter alone and
\* the prepared-statement commands leave schema and capabilities alone, and
\* neither group reads what the other writes: a session is followed through
\* the commands of one group at a time
StmtQuiet == statementID = Uint32(0)

ConnQuiet == Schema = [c \in Conns |-> ""] /\ Capabilities = [c \in Conns |-> CapabilityClientProtocol41]

\* every text prepared so far is one of StmtQueries
Executable == (\A id \in DOMAIN stmts : stmts[id].PrepareStmt \in StmtQueries) /\ (\A c \in Conns : pc[c] = "prepare" => pstmt[c][1].query \in StmtQueries)

\* no other connection is inside a handler
Alone(c) == \A o \in Conns \ {c} : pc[o] = "idle"

\* every command, on every connection; a prepared-statement command starts
\* when no other connection is inside a handler, so that handlers do not
\* overlap (NextStmt and NextShared are where they do)
NextSession ==
  \/ NextCommand
  \/ \E c \in Conns : StmtQuiet /\ HandleInitDB(c)
  \/ \E c \in Conns : StmtQuiet /\ HandleSetOption(c)
  \/ \E c \in Conns : StmtQuiet /\ HandleFieldList(c)
  \/ \E c \in Conns : StmtQuiet /\ HandleQuery(c)
  \/ \E c \in Conns : ConnQuiet /\ Alone(c) /\ PrepareInc(c, Queries)
  \/ \E c \in Conns : PrepareParse(c)
  \/ \E c \in Conns : PrepareReply(c)
  \/ \E c \in Conns : ConnQuiet /\ Executable /\ Alone(c) /\ ExecuteParse(c)
  \/ \E c \in Conns : ExecutorWrites(c)
  \/ \E c \in Conns : ExecuteReturn(c)
  \/ \E c \in Conns : ExecuteFetch(c)
  \/ \E c \in Conns : ExecuteFlush(c)
  \/ \E c \in Conns : ConnQuiet /\ Executable /\ Alone(c) /\ ResetStore(c)
  \/ \E c \in Conns : ResetReply(c)

SpecSession == Init /\ [][NextSession]_vars

\* the prepared-statement commands when one connection prepares and every
\* connection executes and resets: the registry is shared and keyed by the
\* statement id alone
NextShared == NextCommand \/ PrepareInc("c1", StmtQueries) \/ PrepareFinish("c1") \/ \E c \in Conns : HandleStmtExecute(c) \/ HandleStmtReset(c)

SpecShared == Init /\ [][NextShared]_vars

(***************************************************************************)
(* Reading a run's trace.                                                  *)
(***************************************************************************)
CmdOf(run) == IF run.tr = <<>> THEN "none" ELSE run.tr[1].cmd

DataOf(run) == run.tr[1].data

IsWrite(ev) == ev.e = "write"

IsSent(ev) == ev.e = "write" /\ ev.ok

\* the packets the run tried to write, and those it wrote
Writes(tr) == LET w == SelectSeq(tr, IsWrite) IN [i \in 1..Len(w) |-> w[i].p]

Sent(tr) == LET w == SelectSeq(tr, IsSent) IN [i \in 1..Len(w) |-> w[i].p]

\* a packet that ends a response
Terminal(p) == p.t \in {"ERR", "OK", "EOF", "PREPARE", "FIELDLIST"}

Responses(tr) == SelectSeq(Sent(tr), Terminal)

Called(tr, f) == \E i \in 1..Len(tr) : tr[i].e = "call" /\ tr[i].f = f

\* no write and no flush of the run failed
TransportOK(tr) == \A i \in 1..Len(tr) : (tr[i].e = "write" => tr[i].ok) /\ (tr[i].e = "end" => tr[i].ok)

\* every packet written into the buffer is flushed by a later endWriterBuffering
Flushed(tr) == \A i \in 1..Len(tr) : (tr[i].e = "write" /\ tr[i].ok /\ tr[i].buf) => \E j \in (i + 1)..Len(tr) : tr[j].e = "end" /\ tr[j].flushed /\ tr[j].ok

\* the events of kind e, in order
EventsOf(tr, e) == SelectSeq(tr, LAMBDA ev : ev.e = e)

\* the positions of the events of kind e, in order
PositionsOf(tr, e) == SelectSeq([i \in 1..Len(tr) |-> i], LAMBDA i : tr[i].e = e)

\* the packets written while result k of a COM_QUERY was streamed
ResponseOf(tr, k) ==
  LET at == PositionsOf(tr, "once")
      from == at[k]
      to == IF k < Len(at) THEN at[k + 1] ELSE Len(tr) + 1
  IN Sent(SubSeq(tr, from, to - 1))

HasFlags(p) == p.t \in {"OK", "EOF"}

(***************************************************************************)
(* Claims.                                                                 *)
(***************************************************************************)
C1Commands == {"COM_INIT_DB", "COM_QUERY", "COM_FIELD_LIST", "COM_STMT_PREPARE", "COM_STMT_EXECUTE", "COM_STMT_RESET", "COM_SET_OPTION"}

\* C1: when a handler returns (for COM_QUERY: with a single result), and no
\* write or flush failed, exactly one response has been written and every
\* buffered packet has been flushed, whatever the collaborators answered.
C1_OneResponseFlushed ==
  (/\ last # NoRun
   /\ CmdOf(last) \in C1Commands
   /\ CmdOf(last) = "COM_QUERY" => Len(EventsOf(last.tr, "callback")) = 1
   /\ TransportOK(last.tr))
  => (Len(Responses(last.tr)) = 1 /\ Flushed(last.tr))

\* the run on record is a COM_QUERY whose executor invoked the callback n >= 1
\* times and returned without error
QueryReturnedOK(run) ==
  /\ CmdOf(run) = "COM_QUERY"
  /\ Len(EventsOf(run.tr, "callback")) >= 1
  /\ \E i \in 1..Len(run.tr) : run.tr[i].e = "return" /\ run.tr[i].ok

\* C2: for a COM_QUERY whose executor invokes the callback N >= 1 times and
\* returns without error, the N results are streamed in callback order, result
\* k with has_more = (k < N); every packet that carries status flags (the OK
\* of a write-only result, the end-of-result of a dataset result) has
\* SERVER_MORE_RESULTS_EXISTS set iff k < N; a write-only or dataset result
\* whose writes succeed ends in exactly one such packet, and an error result
\* is answered by an ERR packet, which carries no status flags.
C2_MoreResultsFlags ==
  QueryReturnedOK(last) =>
    LET cb == EventsOf(last.tr, "callback")
        once == EventsOf(last.tr, "once")
        N == Len(cb)
    IN /\ Len(once) = N
       /\ \A k \in 1..N :
            LET resp == ResponseOf(last.tr, k)
                flagged == SelectSeq(resp, HasFlags)
            IN /\ cb[k].i = k /\ once[k].i = k /\ once[k].k = cb[k].k
               /\ once[k].more = (k < N)
               /\ \A j \in 1..Len(flagged) : HasBit(flagged[j].status, ServerMoreResultsExists) = (k < N)
               /\ (once[k].k \in {"ok", "ds"} /\ TransportOK(last.tr)) => (Len(flagged) = 1 /\ HasFlags(resp[Len(resp)]))
               /\ once[k].k \notin {"ok", "ds"} => Len(flagged) = 0

\* a dataset result then a write-only result: end-of-result with the flag, OK without
C2_Witness ==
  /\ QueryReturnedOK(last)
  /\ TransportOK(last.tr)
  /\ Len(EventsOf(last.tr, "once")) = 2
  /\ LET r1 == ResponseOf(last.tr, 1)
         r2 == ResponseOf(last.tr, 2)
     IN /\ Len(r1) = 3 /\ r1[3].t = "EOF" /\ HasBit(r1[3].status, ServerMoreResultsExists)
        /\ Len(r2) = 1 /\ r2[1].t = "OK" /\ ~HasBit(r2[1].status, ServerMoreResultsExists)

\* the run on record is a COM_STMT_EXECUTE that names a statement of the
\* registry: parseComStmtExecute found the descriptor
ExecuteOfStored(run) == CmdOf(run) = "COM_STMT_EXECUTE" /\ DataOf(run).ok /\ \E i \in 1..Len(run.tr) : run.tr[i].e = "parse" /\ run.tr[i].id # Uint32(0)

\* C3: when a COM_STMT_EXECUTE that names a statement of the registry returns,
\* by any path, the descriptor's bind_vars is a fresh empty mapping sized to
\* params_count, whatever the executor put into it.
C3_BindVarsReset ==
  ExecuteOfStored(last) =>
    LET stmt == stmts[DataOf(last).id]
    IN stmt.BindVars = [nil |-> FALSE, keys |-> {}, cap |-> stmt.ParamsCount]

\* the statement ids taken by handlers that have not yet stored their statement
PendingIds == {pstmt[c][1].id : c \in {x \in Conns : pc[x] = "prepare"}}

C4State ==
  /\ \A c, d \in Conns : (pc[c] = "prepare" /\ pc[d] = "prepare" /\ c # d) => pstmt[c][1].id # pstmt[d][1].id
  /\ PendingIds \cap DOMAIN stmts = {}
  /\ \A id \in DOMAIN stmts : stmts[id].StatementID = id

C4Step ==
  /\ statementID' # statementID => (Less32(statementID, statementID') /\ \A id \in PendingIds \cup DOMAIN stmts : Less32(id, statementID'))
  /\ \A c \in Conns : (pc[c] = "idle" /\ pc'[c] = "prepare") => (pstmt'[c][1].id = statementID' /\ statementID' # statementID)
  /\ \A id \in DOMAIN stmts : id \in DOMAIN stmts' /\ stmts'[id] = stmts[id]

\* C4: the statement ids handed out are strictly increasing in allocation
\* order; no two prepares, on any connections and however interleaved, hold
\* the same id, and no store overwrites a descriptor stored earlier.
C4_StatementIdsUnique == [](C4State) /\ [][C4Step]_vars

\* the run is a COM_INIT_DB on connection c with a name that is not among the tenant's clusters
InitDBOfDenied(run) ==
  /\ CmdOf(run) = "COM_INIT_DB"
  /\ \A i \in 1..Len(GetClusters(Tenant[run.conn])) : GetClusters(Tenant[run.conn])[i] # DataOf(run)

\* C5: COM_INIT_DB with a name that is not in the tenant's cluster list leaves
\* the connection's schema unchanged, does not call the executor, writes no OK
\* packet, writes one ERR packet, ER_BAD_DB_ERROR "Unknown database '<name>'",
\* and returns nil unless that write failed.
C5_InitDBDenied ==
  [][InitDBOfDenied(last') =>
       /\ Schema' = Schema
       /\ ~Called(last'.tr, "ExecuteUseDB")
       /\ Writes(last'.tr) = <<[t |-> "ERR", code |-> 1049, msg |-> "Unknown database '" \o DataOf(last') \o "'"]>>
       /\ DataOf(last') = "secret" => Writes(last'.tr)[1].msg = "Unknown database 'secret'"
       /\ last'.ret = (IF Sent(last'.tr) = <<>> THEN "write" ELSE "nil")]_vars

\* a denied COM_INIT_DB on a connection that has a schema selected
C5_Witness == InitDBOfDenied(last) /\ Schema[last.conn] = "app" /\ last.ret = "nil" /\ DataOf(last) = "ops"

\* the run is a COM_INIT_DB with a name that is one of the tenant's clusters
InitDBOfAllowed(run) ==
  /\ CmdOf(run) = "COM_INIT_DB"
  /\ \E i \in 1..Len(GetClusters(Tenant[run.conn])) : GetClusters(Tenant[run.conn])[i] = DataOf(run)

\* C6: COM_INIT_DB with a name that equals one of the tenant's clusters sets
\* the connection's schema to it and, when executor.use_db succeeds, writes
\* exactly one packet: OK with 0 affected rows, last insert id 0, the
\* connection's status flags and 0 warnings; when use_db fails it writes nothing.
C6_InitDBAllowed ==
  InitDBOfAllowed(last) =>
    /\ Schema[last.conn] = DataOf(last)
    /\ (\E i \in 1..Len(last.tr) : last.tr[i].e = "call" /\ last.tr[i].f = "ExecuteUseDB" /\ last.tr[i].ok)
         => Writes(last.tr) = <<[t |-> "OK", affected |-> 0, insertId |-> 0, status |-> StatusFlags[last.conn], warn |-> 0]>>
    /\ (\E i \in 1..Len(last.tr) : last.tr[i].e = "call" /\ last.tr[i].f = "ExecuteUseDB" /\ ~last.tr[i].ok)
         => Writes(last.tr) = <<>>

\* the second cluster of a tenant is selected and acknowledged
C6_Witness == InitDBOfAllowed(last) /\ DataOf(last) = "ops" /\ Schema[last.conn] = "ops" /\ last.ret = "nil" /\ Len(Sent(last.tr)) = 1

\* the operation of a COM_SET_OPTION payload: -1 when it cannot be read
OperationOf(data) == IF Len(data) >= 3 THEN data[2] + 256 * data[3] ELSE -1

\* C7: COM_SET_OPTION with operation 0 leaves CLIENT_MULTI_STATEMENTS set,
\* with operation 1 leaves it cleared, with any other or an unreadable
\* operation leaves the capabilities unchanged; no other bit changes.
C7_SetOptionCapabilities ==
  [][CmdOf(last') = "COM_SET_OPTION" =>
       LET c == last'.conn
           op == OperationOf(DataOf(last'))
       IN /\ op = 0 => HasBit(Capabilities'[c], CapabilityClientMultiStatements)
          /\ op = 1 => ~HasBit(Capabilities'[c], CapabilityClientMultiStatements)
          /\ op \notin {0, 1} => Capabilities'[c] = Capabilities[c]
          /\ Capabilities'[c] % CapabilityClientMultiStatements = Capabilities[c] % CapabilityClientMultiStatements
          /\ Capabilities'[c] \div (2 * CapabilityClientMultiStatements) = Capabilities[c] \div (2 * CapabilityClientMultiStatements)
          /\ \A d \in Conns \ {c} : Capabilities'[d] = Capabilities[d]]_vars

\* operation 0 has set the bit beside the capabilities of the handshake
C7_Witness == CmdOf(last) = "COM_SET_OPTION" /\ OperationOf(DataOf(last)) = 0 /\ Capabilities[last.conn] = CapabilityClientProtocol41 + CapabilityClientMultiStatements

\* C8: COM_SET_OPTION writes exactly one packet and returns: one end-of-result
\* and no ERR for operation 0 or 1, one ERR ER_UNKNOWN_COM_ERROR and no
\* end-of-result for any other operation.
C8_SetOptionOnePacket ==
  (CmdOf(last) = "COM_SET_OPTION" /\ TransportOK(last.tr) /\ OperationOf(DataOf(last)) >= 0) =>
    LET w == Writes(last.tr)
    IN /\ Len(w) = 1
       /\ OperationOf(DataOf(last)) \in {0, 1} => w[1].t = "EOF"
       /\ OperationOf(DataOf(last)) \notin {0, 1} => (w[1].t = "ERR" /\ w[1].code = 1047)

\* the run is a COM_STMT_PREPARE whose text or one of whose hints failed to parse
PrepareFailed(run) == CmdOf(run) = "COM_STMT_PREPARE" /\ \E i \in 1..Len(run.tr) : run.tr[i].e = "call" /\ run.tr[i].f \in {"ParseOneStmt", "hint.Parse"} /\ ~run.tr[i].ok

\* C9: when the parser or the parsing of a hint fails, COM_STMT_PREPARE writes
\* one ERR packet and stops: no descriptor is stored, the trace collaborator
\* is not called and no prepare-response is written.
C9_PrepareErrorStops ==
  [][PrepareFailed(last') =>
       /\ Len(Writes(last'.tr)) = 1 /\ Writes(last'.tr)[1].t = "ERR"
       /\ stmts' = stmts /\ EventsOf(last'.tr, "store") = <<>>
       /\ ~Called(last'.tr, "trace.Extract")]_vars

\* the number of "?" in a text, counted run by run
Placeholders(query) == LET at == {i \in 1..Len(query) : query[i].ch = "?"} IN IF at = {} THEN 0 ELSE IF Cardinality(at) = 1 THEN query[CHOOSE i \in at : TRUE].n ELSE -1

\* the run is a COM_STMT_PREPARE that wrote its prepare-response and returned nil
PrepareSucceeded(run) == CmdOf(run) = "COM_STMT_PREPARE" /\ run.ret = "nil" /\ \E i \in 1..Len(Sent(run.tr)) : Sent(run.tr)[i].t = "PREPARE"

\* C10: after a successful COM_STMT_PREPARE the registry holds, under the new
\* id, a descriptor whose params_count is the number of "?" in the text and
\* whose params_type has that length, and the prepare-response carries that id
\* and that count; len(params_type) = params_count holds for every descriptor.
C10_ParamsCount ==
  /\ \A id \in DOMAIN stmts : Len(stmts[id].ParamsType) = stmts[id].ParamsCount
  /\ PrepareSucceeded(last) =>
       LET resp == Sent(last.tr)[Len(Sent(last.tr))]
       IN /\ resp.id \in DOMAIN stmts
          /\ stmts[resp.id].PrepareStmt = DataOf(last)
          /\ stmts[resp.id].ParamsCount = Placeholders(DataOf(last))
          /\ Len(stmts[resp.id].ParamsType) = stmts[resp.id].ParamsCount
          /\ resp.params = stmts[resp.id].ParamsCount

\* the run is a COM_STMT_EXECUTE whose statement id is readable and was not
\* in the registry when parseComStmtExecute looked it up
ExecuteOfUnknown(run) == CmdOf(run) = "COM_STMT_EXECUTE" /\ DataOf(run).ok /\ \E i \in 1..Len(run.tr) : run.tr[i].e = "parse" /\ ~run.tr[i].ok /\ run.tr[i].id = Uint32(0)

\* connection c takes a step of a COM_STMT_EXECUTE whose statement id is
\* readable and is not in the registry
StepOfUnknown(c) ==
  /\ frame'[c] # frame[c]
  /\ pc[c] \in {"executing", "rows", "flush"} \/ pc'[c] \in {"executing", "rows", "flush"}
  /\ LET data == IF frame[c] # <<>> THEN frame[c][1].data ELSE frame'[c][1].data
     IN data.ok /\ data.id \notin DOMAIN stmts

\* C11: COM_STMT_EXECUTE with a statement id that is not in the registry
\* attempts one write, an ERR packet, never calls executor.com_stmt_execute,
\* leaves the registry unchanged in every step it takes and returns (nil, or
\* the error of the write) without crashing on the missing descriptor.
C11_ExecuteUnknownId ==
  [][/\ \A c \in Conns : StepOfUnknown(c) => stmts' = stmts
     /\ ExecuteOfUnknown(last') =>
          /\ Len(Writes(last'.tr)) = 1 /\ Writes(last'.tr)[1].t = "ERR" /\ Writes(last'.tr)[1].code = 2014
          /\ ~Called(last'.tr, "ExecutorComStmtExecute")
          /\ last'.ret = (IF Sent(last'.tr) = <<>> THEN "write" ELSE "nil")]_vars

\* id 2 is executed while only id 1 is in the registry
C11_Witness == ExecuteOfUnknown(last) /\ DataOf(last).id = Uint32(2) /\ DOMAIN stmts = {Uint32(1)} /\ last.ret = "nil" /\ Len(Sent(last.tr)) = 1

\* C12: when executor.field_list returns an error, COM_FIELD_LIST writes the
\* ERR packet and returns at once: no column definition and no EOF follow it.
C12_FieldListErrorReturns ==
  (CmdOf(last) = "COM_FIELD_LIST" /\ \E i \in 1..Len(last.tr) : last.tr[i].e = "call" /\ last.tr[i].f = "ExecuteFieldList" /\ ~last.tr[i].ok)
  => (Len(Writes(last.tr)) = 1 /\ Writes(last.tr)[1].t = "ERR")

\* the statement id of a COM_STMT_RESET payload: no uint32 when it cannot be read
ResetIdOf(data) == IF Len(data) >= 5 THEN <<data[4] + 256 * data[5], data[2] + 256 * data[3]>> ELSE <<-1, -1>>

\* connection c takes the step of a COM_STMT_RESET that replaces the bind variables
ResetStoreOf(c) == pc[c] = "idle" /\ pc'[c] = "reply"

\* C13: COM_STMT_RESET attempts exactly one write, an OK packet with 0
\* affected rows, last insert id 0, the connection's status flags and 0
\* warnings, whether or not the id is readable or in the registry; a
\* descriptor stored under the id gets an empty non-nil bind_vars, and every
\* other field of it and every other entry of the registry is unchanged, in
\* that step of the handler and in its reply.
C13_StmtReset ==
  [][/\ \A c \in Conns : ResetStoreOf(c) =>
          LET id == ResetIdOf(frame'[c][1].data)
          IN /\ DOMAIN stmts' = DOMAIN stmts
             /\ \A x \in DOMAIN stmts : x # id => stmts'[x] = stmts[x]
             /\ id \in DOMAIN stmts =>
                  /\ stmts'[id].BindVars.keys = {} /\ ~stmts'[id].BindVars.nil
                  /\ [stmts'[id] EXCEPT !.BindVars = stmts[id].BindVars] = stmts[id]
     /\ CmdOf(last') = "COM_STMT_RESET" =>
          /\ Writes(last'.tr) = <<[t |-> "OK", affected |-> 0, insertId |-> 0, status |-> StatusFlags[last'.conn], warn |-> 0]>>
          /\ stmts' = stmts]_vars

\* a reset of a stored statement with two parameters: the new bind_vars has no
\* capacity hint, which only the reset leaves, and the parameter types stay
C13_Witness ==
  /\ CmdOf(last) = "COM_STMT_RESET"
  /\ ResetIdOf(DataOf(last)) \in DOMAIN stmts
  /\ LET stmt == stmts[ResetIdOf(DataOf(last))]
     IN stmt.ParamsCount = 2 /\ Len(stmt.ParamsType) = 2 /\ stmt.BindVars = [nil |-> FALSE, keys |-> {}, cap |-> 0]
  /\ last.ret = "nil"

\* a collaborator called by the run returned an error
CollaboratorFailed(tr) == \E i \in 1..Len(tr) : tr[i].e \in {"call", "return"} /\ ~tr[i].ok

\* C14: a handler answers a collaborator's error with an ERR packet and
\* returns nil; it returns a non-nil error only when a write to the client
\* failed.
C14_CollaboratorErrors ==
  (last # NoRun /\ TransportOK(last.tr)) =>
    /\ last.ret = "nil"
    /\ CollaboratorFailed(last.tr) => \E i \in 1..Len(Sent(last.tr)) : Sent(last.tr)[i].t = "ERR"

\* C15: a handler never returns nil after a write of a packet or the flush of
\* end_buffering failed.
C15_WriteFailureReturned == (last # NoRun /\ ~TransportOK(last.tr)) => last.ret # "nil"

\* the start_buffering and end_buffering events of a run, in order
Brackets(tr) == SelectSeq(tr, LAMBDA ev : ev.e \in {"start", "end"})

\* C16: in every handler every packet is written while buffering is on, every
\* start_buffering is followed by one end_buffering before the handler
\* returns, and start_buffering is never called while buffering is on.
C16_BufferingBracketed ==
  last # NoRun =>
    /\ \A i \in 1..Len(last.tr) : last.tr[i].e = "write" => last.tr[i].buf
    /\ \A i \in 1..Len(last.tr) : last.tr[i].e = "start" => ~last.tr[i].nested
    /\ LET b == Brackets(last.tr)
       IN /\ Len(b) % 2 = 0
          /\ \A i \in 1..Len(b) : b[i].e = (IF i % 2 = 1 THEN "start" ELSE "end")

\* C17: every handler calls recycle_read_packet exactly once per command, and
\* before its first call into the tenant manager, the executor, the parser or
\* any other collaborator.
C17_RecycleOnceFirst ==
  last # NoRun =>
    /\ Len(PositionsOf(last.tr, "recycle")) = 1
    /\ \A i \in 1..Len(last.tr) : last.tr[i].e \in {"call", "callback", "return"} => PositionsOf(last.tr, "recycle")[1] < i

\* a COM_STMT_EXECUTE that reached the executor: the header is parsed before
\* the packet is recycled, the executor is called after
C17_Witness == CmdOf(last) = "COM_STMT_EXECUTE" /\ Called(last.tr, "ExecutorComStmtExecute") /\ Len(PositionsOf(last.tr, "recycle")) = 1 /\ PositionsOf(last.tr, "parse")[1] < PositionsOf(last.tr, "recycle")[1]

\* the step is one of a handler running on connection c
StepOf(c) == pc'[c] # pc[c] \/ frame'[c] # frame[c] \/ last'.conn = c

\* C18: a stored descriptor's bind_vars and params_type are written only by
\* handlers running on the connection that prepared it. Under SpecShared every
\* descriptor is prepared by connection c1, so every step that changes a
\* stored descriptor is a step of a handler running on c1.
C18_OwnerOnlyWrites ==
  [][\A id \in DOMAIN stmts : (id \in DOMAIN stmts' /\ stmts'[id] # stmts[id]) => StepOf("c1")]_vars

\* C19: in COM_QUERY every result passed to the callback is streamed exactly
\* once, in order, result k with has_more = true when callback k + 1 arrives
\* and the last one with has_more = false when com_query returns, whatever
\* com_query returns.
C19_EveryResultEmitted ==
  (CmdOf(last) = "COM_QUERY" /\ TransportOK(last.tr)) =>
    LET cb == EventsOf(last.tr, "callback")
        once == EventsOf(last.tr, "once")
    IN /\ Len(once) = Len(cb)
       /\ \A k \in 1..Len(once) : once[k].i = k /\ once[k].k = cb[k].k /\ once[k].more = (k < Len(cb))
       /\ \A k \in 1..Len(once) : PositionsOf(last.tr, "once")[k] > (IF k < Len(cb) THEN PositionsOf(last.tr, "callback")[k + 1] ELSE PositionsOf(last.tr, "return")[1])

\* the events of the run while result k of a COM_QUERY was streamed
OnceSegment(tr, k) ==
  LET at == PositionsOf(tr, "once")
  IN SubSeq(tr, at[k], (IF k < Len(at) THEN at[k + 1] ELSE Len(tr) + 1) - 1)

TypesOf(packets) == [i \in 1..Len(packets) |-> packets[i].t]

\* C20: for one held-back result and one has_more value the result streamer
\* writes at most one terminating packet (ERR, OK or end-of-result); when no
\* write fails it writes exactly a single ERR packet (failure, nil result,
\* dataset error), a single OK packet (write-only result), or the fields, the
\* rows and one end-of-result (dataset); a failed write is its last write.
C20_OneTerminator ==
  CmdOf(last) = "COM_QUERY" =>
    \A k \in 1..Len(EventsOf(last.tr, "once")) :
      LET seg == OnceSegment(last.tr, k)
          kind == seg[1].k
          tried == SelectSeq(seg, IsWrite)
      IN /\ Len(SelectSeq(Writes(seg), Terminal)) <= 1
         /\ \A i \in 1..Len(tried) : ~tried[i].ok => i = Len(tried)
         /\ TransportOK(seg) =>
              TypesOf(Writes(seg)) = (IF kind \in {"fail", "nil", "dserr"} THEN <<"ERR">> ELSE IF kind = "ok" THEN <<"OK">> ELSE <<"FIELDS", "ROWS", "EOF">>)
         /\ Len(EventsOf(seg, "start")) = 1 /\ Len(EventsOf(seg, "end")) = 1

\* a write-only result streamed with has_more, then a result whose Dataset() fails
C20_Witness ==
  /\ CmdOf(last) = "COM_QUERY"
  /\ TransportOK(last.tr)
  /\ Len(EventsOf(last.tr, "once")) = 2
  /\ TypesOf(Writes(OnceSegment(last.tr, 1))) = <<"OK">>
  /\ OnceSegment(last.tr, 2)[1].k = "dserr"
  /\ TypesOf(Writes(OnceSegment(last.tr, 2))) = <<"ERR">>

\* the packet is the ERR written for a result that carries an error
IsErr(p) == p.t = "ERR"

\* C21: in a COM_QUERY response the ERR packet written for a result (a
\* callback error, a nil Result or a Dataset() error) is the last packet of
\* the command's response: nothing is written for later results.
C21_ErrIsLast ==
  CmdOf(last) = "COM_QUERY" =>
    LET sent == Sent(last.tr)
    IN \A i \in 1..Len(sent) : IsErr(sent[i]) => i = Len(sent)

\* the run is a COM_STMT_EXECUTE whose executor returned no error and a nil
\* Result: Dataset() is not invoked on a Result that is nil
ExecuteOfNilResult(run) ==
  /\ CmdOf(run) = "COM_STMT_EXECUTE"
  /\ \E i \in 1..Len(run.tr) : run.tr[i].e = "call" /\ run.tr[i].f = "ExecutorComStmtExecute" /\ run.tr[i].ok
  /\ ~Called(run.tr, "Dataset")

\* C22: when the executor of a COM_STMT_EXECUTE returns no error and a nil
\* Result, the handler attempts one write, an ERR packet ER_BAD_NULL_ERROR,
\* and returns normally (nil, or the error of the write); it never
\* dereferences the nil Result.
C22_ExecuteNilResult ==
  ExecuteOfNilResult(last) =>
    /\ last.ret \in {"nil", "write"}
    /\ Len(Writes(last.tr)) = 1 /\ Writes(last.tr)[1].t = "ERR" /\ Writes(last.tr)[1].code = 1048

\* the datasets a run obtained: for COM_QUERY one per streamed result of kind
\* dataset, for COM_STMT_EXECUTE the one whose fields are written
DatasetsObtained(run) ==
  IF CmdOf(run) = "COM_QUERY" THEN Len(SelectSeq(EventsOf(run.tr, "once"), LAMBDA ev : ev.k = "ds"))
  ELSE IF CmdOf(run) = "COM_STMT_EXECUTE" THEN Len(SelectSeq(run.tr, LAMBDA ev : ev.e = "write" /\ ev.p.t = "FIELDS"))
  ELSE 0

\* C23: every non-nil Dataset a handler obtains from result.Dataset() (for
\* each streamed result of COM_QUERY, and in COM_STMT_EXECUTE) is closed by
\* the handler exactly once before it returns, whether or not a write failed.
C23_DatasetClosedOnce ==
  last # NoRun => Len(SelectSeq(last.tr, LAMBDA ev : ev.e = "call" /\ ev.f = "Close")) = DatasetsObtained(last)

====
